---- MODULE Spec2Model ----
(***************************************************************************)
(* The text-extractor pipeline of detect-image-attributes: an SQS message  *)
(* names an S3 object; the handler reads the object's tags, skips objects  *)
(* already tagged rekognition_text_detection = "true", otherwise calls     *)
(* Rekognition DetectText, writes one item to DynamoDB, tags the object    *)
(* and deletes the message.  The queue, its dead-letter queue and the SQS  *)
(* event source that invokes the handler are configured by the CDK stack.  *)
(***************************************************************************)
EXTENDS Integers, Sequences, FiniteSets, TLC

(***************************************************************************)
(* Bounds of the model.                                                    *)
(***************************************************************************)
\* messages in the queue
NumMsgs == 2
\* handler invocations started over a behaviour
MaxRuns == 3

(***************************************************************************)
(* Program constants.                                                      *)
(***************************************************************************)
\* text-extractor/index.js:22
processedByRekognitionTextDetectionTag == "rekognition_text_detection"
\* text-extractor/index.js:138, the S3 limit of tags per object
MaxTags == 10
\* detect-image-attributes-stack.ts: deadLetterQueue.maxReceiveCount
maxReceiveCount == 3
\* detect-image-attributes-stack.ts: const wordToDetect = "findme"
wordToDetect == <<"f", "i", "n", "d", "m", "e">>

\* what JavaScript renders for a field the message body lacks
Undefined == "undefined"

Msgs == 1..NumMsgs
Bucket == "b"
\* the objects of the bucket that messages name
Objects == {"posters/p1.jpg"}
\* the version ids the fan-out puts in the messages, one for each message
VersionId(m) == <<"v1", "v2", "v3", "v4">>[m]

(***************************************************************************)
(* Text.  A JavaScript string is a sequence of one-character strings.      *)
(***************************************************************************)
UpperCase == <<"D", "E", "F", "I", "M", "N", "O", "W", "G", "J", "P">>
LowerCase == <<"d", "e", "f", "i", "m", "n", "o", "w", "g", "j", "p">>

\* a comparison that leaves the case of the text as it is
keepCase(s) == s

\* String.prototype.toLowerCase, character by character
toLowerCase(s) ==
    [i \in 1..Len(s) |->
        IF \E j \in 1..Len(UpperCase) : UpperCase[j] = s[i]
        THEN LowerCase[CHOOSE j \in 1..Len(UpperCase) : UpperCase[j] = s[i]]
        ELSE s[i]]

\* String.prototype.includes: w occurs in s as a contiguous substring
includes(s, w) ==
    \E k \in 0..(Len(s) - Len(w)) : \A i \in 1..Len(w) : s[k + i] = w[i]

\* Array.prototype.filter
RECURSIVE filterType(_, _)
filterType(detections, type) ==
    IF detections = <<>> THEN <<>>
    ELSE IF Head(detections).Type = type
         THEN <<Head(detections)>> \o filterType(Tail(detections), type)
         ELSE filterType(Tail(detections), type)

\* a separator written after every text, the last one too
RECURSIVE joinTrailing(_)
joinTrailing(texts) ==
    IF texts = <<>> THEN <<>>
    ELSE texts[1] \o <<" ", "|", " ">> \o joinTrailing(Tail(texts))

\* Array.prototype.join(" | ")
RECURSIVE join(_)
join(texts) ==
    IF texts = <<>> THEN <<>>
    ELSE IF Len(texts) = 1 THEN texts[1]
    ELSE texts[1] \o <<" ", "|", " ">> \o join(Tail(texts))

\* index.js:78-82  the LINE fragments' texts joined by " | "
detectedText(rekognitionResponse) ==
    LET lines == filterType(rekognitionResponse, "LINE")
    IN  join([i \in 1..Len(lines) |-> lines[i].DetectedText])

\* index.js:87-92  some WORD fragment contains the word, case ignored
wordDetectedIn(rekognitionResponse, word) ==
    LET words == filterType(rekognitionResponse, "WORD")
    IN  \E i \in 1..Len(words) :
            includes(toLowerCase(words[i].DetectedText), toLowerCase(word))

\* index.js:87-92 with process.env.WORD_TO_DETECT as the stack sets it
wordDetected(rekognitionResponse) == wordDetectedIn(rekognitionResponse, wordToDetect)

\* a template literal without the slash between bucket and key
s3UriNoSlash(bucket, key) == "s3://" \o bucket \o key

\* index.js:29  the template literal `s3://${bucket}/${key}`
s3Uri(bucket, key) == "s3://" \o bucket \o "/" \o key

(***************************************************************************)
(* Tags.  A TagSet is a sequence of [Key, Value] records; S3 keeps at most *)
(* MaxTags tags on an object and no two with the same key.                 *)
(***************************************************************************)
Tag(k, v) == [Key |-> k, Value |-> v]

OtherKeys == <<"k01", "k02", "k03", "k04", "k05", "k06", "k07", "k08", "k09", "k10", "k11">>

\* n tags that have nothing to do with the pipeline
Unrelated(n) == [i \in 1..n |-> Tag(OtherKeys[i], "x")]

InsertAt(s, p, e) == SubSeq(s, 1, p - 1) \o <<e>> \o SubSeq(s, p, Len(s))

\* the values an object's rekognition_text_detection tag may carry
MarkerValues == {"false", "true", "pending"}

UnrelatedCounts == {0, MaxTags - 1, MaxTags}

\* where the rekognition_text_detection tag stands among n other tags
MarkerPosition(n) == (n \div 2) + 1

\* the tag sets an object may carry before the pipeline first sees it
InitTagSets ==
    {Unrelated(n) : n \in UnrelatedCounts}
    \cup UNION {
            {InsertAt(Unrelated(n), MarkerPosition(n),
                      Tag(processedByRekognitionTextDetectionTag, v)) : v \in MarkerValues} :
            n \in UnrelatedCounts \ {MaxTags}}

\* S3 refuses a TagSet with more than MaxTags tags or with a repeated key
S3Accepts(tagSet) ==
    /\ Len(tagSet) <= MaxTags
    /\ \A i, j \in 1..Len(tagSet) : tagSet[i].Key = tagSet[j].Key => i = j

(***************************************************************************)
(* The handler's decisions on the tags it read.                            *)
(***************************************************************************)
\* a check that looks at the first tag only
hasTagFirstOnly(existingTags) ==
    /\ Len(existingTags) > 0
    /\ existingTags[1].Key = processedByRekognitionTextDetectionTag
    /\ existingTags[1].Value = "true"

\* a check that compares the value with 'True'
hasTagWrongCase(existingTags) ==
    \E i \in 1..Len(existingTags) :
        /\ existingTags[i].Key = processedByRekognitionTextDetectionTag
        /\ existingTags[i].Value = "True"

\* index.js:42-44
hasRekognitionTextDetectionTag(existingTags) ==
    \E i \in 1..Len(existingTags) :
        /\ existingTags[i].Key = processedByRekognitionTextDetectionTag
        /\ existingTags[i].Value = "true"

\* index.js:113-115
hasFalseTag(existingTags) ==
    \E i \in 1..Len(existingTags) :
        /\ existingTags[i].Key = processedByRekognitionTextDetectionTag
        /\ existingTags[i].Value = "false"

\* a map that returns every tag as it was read
rewrittenAsRead(existingTags) == existingTags

\* a map that sets the value of every tag
rewrittenEveryValue(existingTags) ==
    [i \in 1..Len(existingTags) |-> Tag(existingTags[i].Key, "true")]

\* index.js:121-129  existingTags.map(...)
rewrittenTagSet(existingTags) ==
    [i \in 1..Len(existingTags) |->
        IF existingTags[i].Key = processedByRekognitionTextDetectionTag
        THEN Tag(existingTags[i].Key, "true")
        ELSE existingTags[i]]

\* a marker whose value is written with a capital
appendedCapitalTrue(existingTags) ==
    existingTags \o <<Tag(processedByRekognitionTextDetectionTag, "True")>>

\* a TagSet without the spread of existingTags
appendedMarkerOnly(existingTags) ==
    <<Tag(processedByRekognitionTextDetectionTag, "true")>>

\* index.js:145-151  [...existingTags, {Key, Value: 'true'}]
appendedTagSet(existingTags) ==
    existingTags \o <<Tag(processedByRekognitionTextDetectionTag, "true")>>

\* a limit test that lets the eleventh tag through
atOrBelowTagLimit(existingTags) == Len(existingTags) <= MaxTags

\* a limit test that stops one tag early
belowTagLimitLessOne(existingTags) == Len(existingTags) < MaxTags - 1

\* index.js:138
belowTagLimit(existingTags) == Len(existingTags) < MaxTags

\* index.js:113-160  what the tagging step sends to S3, if anything
tagUpdate(existingTags) ==
    IF hasFalseTag(existingTags)
    THEN [write |-> TRUE, TagSet |-> rewrittenTagSet(existingTags)]
    ELSE IF belowTagLimit(existingTags)
         THEN [write |-> TRUE, TagSet |-> appendedTagSet(existingTags)]
         ELSE [write |-> FALSE, TagSet |-> existingTags]

(***************************************************************************)
(* DynamoDB.  The table is a set of items; PutItem replaces the item that  *)
(* has the new item's partition key s3Uri.                                 *)
(***************************************************************************)
\* index.js:103-108
Item(uri, response) ==
    [s3Uri |-> uri,
     text_detected_flattened |-> detectedText(response),
     contains_word |-> wordDetected(response)]

\* an update that appends the text to the text of the item already stored
PutAppendText(items, item) ==
    LET old == {i \in items : i.s3Uri = item.s3Uri}
        before == IF old = {} THEN <<>>
                  ELSE (CHOOSE i \in old : TRUE).text_detected_flattened
    IN  {i \in items : i.s3Uri # item.s3Uri}
            \cup {[item EXCEPT !.text_detected_flattened = before \o @]}

\* an update of the text attribute alone of an item that exists
PutTextOnly(items, item) ==
    IF \E i \in items : i.s3Uri = item.s3Uri
    THEN {IF i.s3Uri = item.s3Uri
          THEN [i EXCEPT !.text_detected_flattened = item.text_detected_flattened]
          ELSE i : i \in items}
    ELSE items \cup {item}

\* index.js:100-110
PutItem(items, item) == {i \in items : i.s3Uri # item.s3Uri} \cup {item}

(***************************************************************************)
(* Inputs.                                                                 *)
(***************************************************************************)
Line(t) == [Type |-> "LINE", DetectedText |-> t]
Word(t) == [Type |-> "WORD", DetectedText |-> t]

\* what DetectText may return for an image
Responses ==
    { <<>>,
      <<Line(<<"F", "I", "N", "D", "M", "E", " ", "N", "O", "W">>),
        Word(<<"F", "I", "N", "D", "M", "E">>), Word(<<"N", "O", "W">>),
        Line(<<"m", "e">>), Word(<<"m", "e">>)>> }

NoResponse == <<[Type |-> "NONE", DetectedText |-> <<>>]>>

\* the body of message m: JSON that parses to {bucket, key, versionId}, JSON
\* lacking the key, or text that JSON.parse rejects
Bodies(m) ==
    {[parses |-> TRUE, bucket |-> Bucket, key |-> k, versionId |-> VersionId(m)] :
        k \in Objects \cup {Undefined}}
    \cup {[parses |-> FALSE, bucket |-> Undefined, key |-> Undefined, versionId |-> Undefined]}

\* an item stored for an object that no message of the model names
OtherItem ==
    [s3Uri |-> s3Uri(Bucket, "posters/p0.png"),
     text_detected_flattened |-> <<"N", "O", "W">>,
     contains_word |-> FALSE]

(***************************************************************************)
(* State.                                                                  *)
(***************************************************************************)
VARIABLES
    body,                \* body[m]: the body of message m
    msgState,            \* "visible", "inflight", "deleted" or "dlq"
    receiveCount,        \* SQS ApproximateReceiveCount of message m
    pc,                  \* where the invocation handling m stands
    existingTags,        \* the handler's existingTags
    rekognitionResponse, \* the handler's rekognitionResponse
    tags,                \* tags[o]: the TagSet S3 holds for object o
    table,               \* the items of the DynamoDB table
    trace,               \* trace[m]: the service calls of m's latest invocation
    initTags,            \* tags as they were before the pipeline ran
    lastPut,             \* lastPut[uri]: the item the latest PutItem for uri sent
    runs,                \* invocations started
    task,                \* task[m]: the S3 Batch Operations task that names m's object
    batchResponse        \* batchResponse[m]: what the s3-batch-sqs handler returned

vars == <<body, msgState, receiveCount, pc, existingTags, rekognitionResponse,
          tags, table, trace, initTags, lastPut, runs, task, batchResponse>>

Uris == {s3Uri(Bucket, o) : o \in Objects}
NoItem == [s3Uri |-> "none"]

Call(name, ok) == [call |-> name, ok |-> ok]

\* no task and no response: the messages are in the queue already
NoTask == [taskId |-> "none", s3Key |-> <<>>, s3VersionId |-> "none", s3BucketArn |-> <<>>]
NoBatchResponse ==
    [invocationSchemaVersion |-> "none", treatMissingKeysAs |-> "none", results |-> <<>>]

Init ==
    /\ body \in [Msgs -> UNION {Bodies(m) : m \in Msgs}]
    /\ \A m \in Msgs : body[m] \in Bodies(m)
    /\ msgState = [m \in Msgs |-> "visible"]
    /\ receiveCount = [m \in Msgs |-> 0]
    /\ pc = [m \in Msgs |-> "idle"]
    /\ existingTags = [m \in Msgs |-> <<>>]
    /\ rekognitionResponse = [m \in Msgs |-> NoResponse]
    /\ \E t \in InitTagSets : tags = [o \in Objects |-> t]
    /\ table = {OtherItem}
    /\ trace = [m \in Msgs |-> <<>>]
    /\ initTags = tags
    /\ lastPut = [u \in Uris |-> NoItem]
    /\ runs = 0
    /\ task = [m \in Msgs |-> NoTask]
    /\ batchResponse = [m \in Msgs |-> NoBatchResponse]

(***************************************************************************)
(* The SQS event source (batchSize 1) and the handler, one action for each *)
(* awaited service call and one for its failure.  The handler's catch      *)
(* block rethrows, so a failed call fails the invocation.                  *)
(***************************************************************************)
Key(m) == body[m].key
Uri(m) == s3Uri(body[m].bucket, body[m].key)

\* an order that tags the object before the item is stored
nextStepTagFirst(step) ==
    CASE step = "detect" -> "tagging"
      [] step = "tagging" -> "putItem"
      [] step = "putItem" -> "delete"
      [] step = "delete" -> "returned"

\* index.js:56-175  the order of the handler's awaited calls
nextStep(step) ==
    CASE step = "detect" -> "putItem"
      [] step = "putItem" -> "tagging"
      [] step = "tagging" -> "delete"
      [] step = "delete" -> "returned"

\* a call of the handler that succeeded: the handler goes on to `next`
Returned(m, name, next) ==
    /\ pc' = [pc EXCEPT ![m] = next]
    /\ trace' = [trace EXCEPT ![m] = Append(@, Call(name, TRUE))]

\* a catch block that logs the error and does not rethrow it
ThrowSwallowed(m, name) ==
    /\ pc' = [pc EXCEPT ![m] = "returned"]
    /\ trace' = [trace EXCEPT ![m] = Append(@, Call(name, FALSE))]

\* index.js:186-189  a call of the handler that threw
Throw(m, name) ==
    /\ pc' = [pc EXCEPT ![m] = "thrown"]
    /\ trace' = [trace EXCEPT ![m] = Append(@, Call(name, FALSE))]

\* the event source takes m from the queue for one invocation
Deliver(m) ==
    /\ msgState[m] = "visible"
    /\ receiveCount[m] < maxReceiveCount
    /\ runs < MaxRuns
    /\ runs' = runs + 1
    /\ msgState' = [msgState EXCEPT ![m] = "inflight"]
    /\ receiveCount' = [receiveCount EXCEPT ![m] = @ + 1]
    /\ existingTags' = [existingTags EXCEPT ![m] = <<>>]
    /\ UNCHANGED <<task, batchResponse,
                   body, rekognitionResponse, tags, table, initTags, lastPut>>

\* index.js:17-31  the handler starts and parses the body
Invoke(m) ==
    /\ body[m].parses
    /\ Deliver(m)
    /\ pc' = [pc EXCEPT ![m] = "getTags"]
    /\ trace' = [trace EXCEPT ![m] = <<>>]

\* index.js:27  JSON.parse throws
InvokeParseFails(m) ==
    /\ ~body[m].parses
    /\ Deliver(m)
    /\ pc' = [pc EXCEPT ![m] = "thrown"]
    /\ trace' = [trace EXCEPT ![m] = <<Call("JSON.parse", FALSE)>>]

\* index.js:48  where the handler goes with the tags it read
afterTags(tagSet) ==
    IF hasRekognitionTextDetectionTag(tagSet) THEN "returned" ELSE "detect"

\* index.js:34-54
GetObjectTagging(m) ==
    /\ pc[m] = "getTags"
    /\ Key(m) \in Objects
    /\ existingTags' = [existingTags EXCEPT ![m] = tags[Key(m)]]
    /\ Returned(m, "GetObjectTagging", afterTags(tags[Key(m)]))
    /\ UNCHANGED <<task, batchResponse,
                   body, msgState, receiveCount, rekognitionResponse, tags, table,
                   initTags, lastPut, runs>>

\* S3 has no such object, or is unavailable
GetObjectTaggingFails(m) ==
    /\ pc[m] = "getTags"
    /\ Throw(m, "GetObjectTagging")
    /\ UNCHANGED <<task, batchResponse,
                   body, msgState, receiveCount, existingTags, rekognitionResponse,
                   tags, table, initTags, lastPut, runs>>

\* index.js:58-92
DetectText(m) ==
    /\ pc[m] = "detect"
    /\ \E r \in Responses :
          rekognitionResponse' = [rekognitionResponse EXCEPT ![m] = r]
    /\ Returned(m, "DetectText", nextStep("detect"))
    /\ UNCHANGED <<task, batchResponse,
                   body, msgState, receiveCount, existingTags, tags, table,
                   initTags, lastPut, runs>>

DetectTextFails(m) ==
    /\ pc[m] = "detect"
    /\ Throw(m, "DetectText")
    /\ UNCHANGED <<task, batchResponse,
                   body, msgState, receiveCount, existingTags, rekognitionResponse,
                   tags, table, initTags, lastPut, runs>>

\* index.js:95-110
PutItemCommand(m) ==
    /\ pc[m] = "putItem"
    /\ table' = PutItem(table, Item(Uri(m), rekognitionResponse[m]))
    /\ lastPut' = [lastPut EXCEPT ![Uri(m)] = Item(Uri(m), rekognitionResponse[m])]
    /\ Returned(m, "PutItem", nextStep("putItem"))
    /\ UNCHANGED <<task, batchResponse,
                   body, msgState, receiveCount, existingTags, rekognitionResponse,
                   tags, initTags, runs>>

PutItemFails(m) ==
    /\ pc[m] = "putItem"
    /\ Throw(m, "PutItem")
    /\ UNCHANGED <<task, batchResponse,
                   body, msgState, receiveCount, existingTags, rekognitionResponse,
                   tags, table, initTags, lastPut, runs>>

\* index.js:113-135 and 138-156  the tag set is rewritten or extended
PutObjectTagging(m) ==
    /\ pc[m] = "tagging"
    /\ tagUpdate(existingTags[m]).write
    /\ S3Accepts(tagUpdate(existingTags[m]).TagSet)
    /\ tags' = [tags EXCEPT ![Key(m)] = tagUpdate(existingTags[m]).TagSet]
    /\ Returned(m, "PutObjectTagging", nextStep("tagging"))
    /\ UNCHANGED <<task, batchResponse,
                   body, msgState, receiveCount, existingTags, rekognitionResponse,
                   table, initTags, lastPut, runs>>

\* S3 refuses the tag set, or is unavailable
PutObjectTaggingFails(m) ==
    /\ pc[m] = "tagging"
    /\ tagUpdate(existingTags[m]).write
    /\ Throw(m, "PutObjectTagging")
    /\ UNCHANGED <<task, batchResponse,
                   body, msgState, receiveCount, existingTags, rekognitionResponse,
                   tags, table, initTags, lastPut, runs>>

\* index.js:157-159  the object has MaxTags tags: only a log line
SkipTagging(m) ==
    /\ pc[m] = "tagging"
    /\ ~tagUpdate(existingTags[m]).write
    /\ Returned(m, "skipTagging", nextStep("tagging"))
    /\ UNCHANGED <<task, batchResponse,
                   body, msgState, receiveCount, existingTags, rekognitionResponse,
                   tags, table, initTags, lastPut, runs>>

\* index.js:162-184
DeleteMessage(m) ==
    /\ pc[m] = "delete"
    /\ msgState' = [msgState EXCEPT ![m] = "deleted"]
    /\ Returned(m, "DeleteMessage", nextStep("delete"))
    /\ UNCHANGED <<task, batchResponse,
                   body, receiveCount, existingTags, rekognitionResponse, tags,
                   table, initTags, lastPut, runs>>

DeleteMessageFails(m) ==
    /\ pc[m] = "delete"
    /\ Throw(m, "DeleteMessage")
    /\ UNCHANGED <<task, batchResponse,
                   body, msgState, receiveCount, existingTags, rekognitionResponse,
                   tags, table, initTags, lastPut, runs>>

\* the end of an invocation leaves the handler's variables behind
Finish(m) ==
    /\ pc' = [pc EXCEPT ![m] = "idle"]
    /\ rekognitionResponse' = [rekognitionResponse EXCEPT ![m] = NoResponse]
    /\ UNCHANGED <<task, batchResponse,
                   body, receiveCount, existingTags, tags, table, trace, initTags,
                   lastPut, runs>>

\* the event source deletes the message of an invocation that returned
CompleteReturned(m) ==
    /\ pc[m] = "returned"
    /\ msgState' = [msgState EXCEPT ![m] = "deleted"]
    /\ Finish(m)

\* the message of an invocation that threw becomes visible again
CompleteThrown(m) ==
    /\ pc[m] = "thrown"
    /\ msgState' = [msgState EXCEPT ![m] = "visible"]
    /\ Finish(m)

\* the queue moves a message received maxReceiveCount times to the
\* dead-letter queue instead of delivering it again
MoveToDeadLetterQueue(m) ==
    /\ msgState[m] = "visible"
    /\ receiveCount[m] >= maxReceiveCount
    /\ msgState' = [msgState EXCEPT ![m] = "dlq"]
    /\ UNCHANGED <<task, batchResponse,
                   body, receiveCount, pc, existingTags, rekognitionResponse, tags,
                   table, trace, initTags, lastPut, runs>>

Next ==
    \E m \in Msgs :
        \/ Invoke(m)
        \/ InvokeParseFails(m)
        \/ GetObjectTagging(m)
        \/ GetObjectTaggingFails(m)
        \/ DetectText(m)
        \/ DetectTextFails(m)
        \/ PutItemCommand(m)
        \/ PutItemFails(m)
        \/ PutObjectTagging(m)
        \/ PutObjectTaggingFails(m)
        \/ SkipTagging(m)
        \/ DeleteMessage(m)
        \/ DeleteMessageFails(m)
        \/ CompleteReturned(m)
        \/ CompleteThrown(m)
        \/ MoveToDeadLetterQueue(m)

Spec == Init /\ [][Next]_vars

(***************************************************************************)
(* Normal operation: no call fails and the invocations for one object do   *)
(* not overlap.                                                            *)
(***************************************************************************)
InvokeAlone(m) ==
    /\ \A n \in Msgs : Key(n) = Key(m) => pc[n] = "idle"
    /\ Invoke(m)

NextNormal ==
    \E m \in Msgs :
        \/ InvokeAlone(m)
        \/ GetObjectTagging(m)
        \/ DetectText(m)
        \/ PutItemCommand(m)
        \/ PutObjectTagging(m)
        \/ SkipTagging(m)
        \/ DeleteMessage(m)
        \/ CompleteReturned(m)

SpecNormal == Init /\ [][NextNormal]_vars

(***************************************************************************)
(* Properties.                                                             *)
(***************************************************************************)
MarkerTag(v) == [Key |-> "rekognition_text_detection", Value |-> v]

\* the tag set carries the idempotency marker with value v
Marked(tagSet, v) == \E i \in 1..Len(tagSet) : tagSet[i] = MarkerTag(v)

\* the tag set carries no idempotency marker at all
Unmarked(tagSet) ==
    \A i \in 1..Len(tagSet) : tagSet[i].Key # "rekognition_text_detection"

Ok(name) == [call |-> name, ok |-> TRUE]
Failed(name) == [call |-> name, ok |-> FALSE]
Calls(m) == {trace[m][i] : i \in 1..Len(trace[m])}
CallNames(m) == {trace[m][i].call : i \in 1..Len(trace[m])}

\* the latest invocation for m read the tags and found the marker "true"
ShortCircuited(m) == Marked(existingTags[m], "true")

\* C1 as amended: an invocation that reads the marker "true" calls neither
\* DetectText nor PutItem nor PutObjectTagging nor DeleteMessage and returns
\* normally; the message is still in flight when the handler returns and is
\* deleted by the event source once the invocation has completed.
C1_ShortCircuit ==
    \A m \in Msgs :
        ShortCircuited(m) =>
            /\ pc[m] \in {"returned", "idle"}
            /\ trace[m] = <<Ok("GetObjectTagging")>>
            /\ pc[m] = "returned" => msgState[m] = "inflight"
            /\ pc[m] = "idle" => msgState[m] = "deleted"

C1_Witness ==
    \E m \in Msgs :
        /\ ShortCircuited(m)
        /\ pc[m] = "idle"
        /\ msgState[m] = "deleted"
        /\ Marked(initTags[Key(m)], "false")

\* C1 as stated: a run that short-circuits has acknowledged its message by
\* the time the handler returns.
C1_AsStated ==
    \A m \in Msgs :
        (ShortCircuited(m) /\ pc[m] = "returned") =>
            /\ CallNames(m) \cap {"DetectText", "PutItem", "PutObjectTagging"} = {}
            /\ msgState[m] = "deleted"

\* C2: a failed call is the last call of its invocation (no later step, no
\* second attempt of any step), the invocation ends by throwing, and the
\* message is not deleted: it is in flight until the invocation completes and
\* then visible again, or in the dead-letter queue once it has been received
\* maxReceiveCount times.
C2_FaultAborts ==
    \A m \in Msgs :
        /\ \A i \in 1..Len(trace[m]) : ~trace[m][i].ok => i = Len(trace[m])
        /\ \A i, j \in 1..Len(trace[m]) : trace[m][i].call = trace[m][j].call => i = j
        /\ pc[m] = "thrown" => (trace[m] # <<>> /\ ~trace[m][Len(trace[m])].ok)
        /\ (trace[m] # <<>> /\ ~trace[m][Len(trace[m])].ok) =>
              /\ pc[m] \in {"thrown", "idle"}
              /\ pc[m] = "thrown" => msgState[m] = "inflight"
              /\ pc[m] = "idle" =>
                    \/ msgState[m] = "visible"
                    \/ msgState[m] = "dlq" /\ receiveCount[m] = maxReceiveCount

C2_Witness ==
    \E m \in Msgs :
        /\ pc[m] = "idle"
        /\ msgState[m] = "visible"
        /\ Failed("PutObjectTagging") \in Calls(m)
        /\ receiveCount[m] = 1

\* the calls of a run that does not short-circuit, in order
StepCalls ==
    <<{"GetObjectTagging"}, {"DetectText"}, {"PutItem"},
      {"PutObjectTagging", "skipTagging"}, {"DeleteMessage"}>>

\* C3: the calls of an invocation are a prefix of GetObjectTagging,
\* DetectText, PutItem, PutObjectTagging (or the skip at the cap),
\* DeleteMessage, each made only after the one before it succeeded; so
\* DeleteMessage follows a successful PutItem and the tagging step, and
\* PutObjectTagging follows a successful PutItem.
C3_StepOrder ==
    \A m \in Msgs :
        trace[m] # <<Failed("JSON.parse")>> =>
            /\ Len(trace[m]) <= 5
            /\ \A i \in 1..Len(trace[m]) :
                  /\ trace[m][i].call \in StepCalls[i]
                  /\ i < Len(trace[m]) => trace[m][i].ok

C3_Witness ==
    \E m \in Msgs :
        /\ pc[m] = "returned"
        /\ trace[m] = <<Ok("GetObjectTagging"), Ok("DetectText"), Ok("PutItem"),
                        Ok("PutObjectTagging"), Ok("DeleteMessage")>>

\* the tagging step can neither rewrite nor add the marker: MaxTags tags,
\* none of them the marker with value "false" or "true"
CapSkips(tagSet) ==
    /\ Len(tagSet) = 10
    /\ ~Marked(tagSet, "false")
    /\ ~Marked(tagSet, "true")

\* the DetectText calls made for object o; under SpecNormal a message is
\* invoked once (its invocation returns and the message is deleted), so
\* these are the invocations whose calls include DetectText
Detections(o) ==
    Cardinality({m \in Msgs : Key(m) = o /\ "DetectText" \in CallNames(m)})

\* C4 as amended: over fault-free invocations that do not overlap, DetectText
\* is called at most once for an object whose tag set has fewer than 10
\* entries or holds the marker with value "false" or "true"; an object with
\* 10 tags and no such marker is detected again by every invocation.
C4_AtMostOneDetection ==
    \A o \in Objects : ~CapSkips(initTags[o]) => Detections(o) <= 1

C4_Witness ==
    \E o \in Objects :
        /\ ~CapSkips(initTags[o])
        /\ Detections(o) = 1
        /\ \E m \in Msgs : Key(m) = o /\ pc[m] = "idle" /\ ShortCircuited(m)

\* C4 as stated: over fault-free invocations that do not overlap, DetectText
\* is called at most once for every object.
C4_AsStated == \A o \in Objects : Detections(o) <= 1

\* the invocation for m leaves the tagging step
TaggingStep(m) == pc[m] = "tagging" /\ pc'[m] # "tagging"

C6_NewMarkerSet ==
    \A m \in Msgs :
        Ok("PutObjectTagging") \in Calls(m) =>
            LET read == existingTags[m]
                written == tags[Key(m)]
            IN  IF Marked(read, "false")
                THEN /\ Len(written) = Len(read)
                     /\ \A i \in 1..Len(read) :
                           written[i] = IF read[i] = MarkerTag("false")
                                        THEN MarkerTag("true") ELSE read[i]
                ELSE /\ Len(read) < 10
                     /\ Len(written) = Len(read) + 1
                     /\ \A i \in 1..Len(read) : written[i] = read[i]
                     /\ written[Len(written)] = MarkerTag("true")

C6_Witness ==
    \E m \in Msgs :
        /\ Ok("PutObjectTagging") \in Calls(m)
        /\ Marked(existingTags[m], "false")
        /\ Len(existingTags[m]) = 10
        /\ existingTags[m][1].Key # "rekognition_text_detection"

\* the invocation for m read 10 tags, none of them the marker
AtCap(m) == Len(existingTags[m]) = 10 /\ Unmarked(existingTags[m])

\* C7: an invocation that read 10 tags without the marker makes no
\* PutObjectTagging call, leaves the object's tags as they are, takes the
\* skip after a successful PutItem and goes on to DeleteMessage; it throws
\* only if DeleteMessage fails, and when it returns the item is stored and
\* the message deleted.
C7_MarkerCap ==
    \A m \in Msgs :
        AtCap(m) =>
            /\ "PutObjectTagging" \notin CallNames(m)
            /\ tags[Key(m)] = existingTags[m]
            /\ Len(trace[m]) >= 4 =>
                  /\ trace[m][3] = Ok("PutItem")
                  /\ trace[m][4] = Ok("skipTagging")
                  /\ pc[m] \in {"delete", "returned", "thrown", "idle"}
                  /\ pc[m] = "delete" => Len(trace[m]) = 4
                  /\ pc[m] = "thrown" => trace[m][5] = Failed("DeleteMessage")
            /\ pc[m] = "returned" =>
                  /\ trace[m][5] = Ok("DeleteMessage")
                  /\ msgState[m] = "deleted"
                  /\ \E i \in table : i.s3Uri = "s3://b/" \o Key(m)

C7_Witness ==
    \E m \in Msgs :
        /\ AtCap(m)
        /\ pc[m] = "returned"
        /\ Ok("skipTagging") \in Calls(m)

\* C8: every tag the object had before the pipeline ran, other than the
\* marker, is still among the object's tags with its value.
C8_UnrelatedTagsKept ==
    \A o \in Objects :
        \A i \in 1..Len(initTags[o]) :
            initTags[o][i].Key # "rekognition_text_detection" =>
                \E j \in 1..Len(tags[o]) : tags[o][j] = initTags[o][i]

C8_Witness ==
    \E o \in Objects :
        /\ tags[o] # initTags[o]
        /\ Len(initTags[o]) >= 9
        /\ \E m, n \in Msgs : m # n /\ Ok("PutObjectTagging") \in (Calls(m) \cap Calls(n))

\* C9: the table holds at most one item for each s3Uri, the item of an
\* s3Uri is, attribute for attribute, the item of the PutItem that committed
\* last for it, and items of other s3Uris stay.
C9_LastWriteWins ==
    /\ \A i, j \in table : i.s3Uri = j.s3Uri => i = j
    /\ \A u \in Uris :
          IF lastPut[u] = NoItem
          THEN \A i \in table : i.s3Uri # u
          ELSE lastPut[u] \in table
    /\ OtherItem \in table

C9_Witness ==
    \E m, n \in Msgs :
        /\ m # n
        /\ Uri(m) = Uri(n)
        /\ pc[m] = "tagging"
        /\ pc[n] = "tagging"
        /\ rekognitionResponse[m] # rekognitionResponse[n]

\* the detection result of the spec's first scenario, with a second line
FindMeNow ==
    <<Line(<<"F", "I", "N", "D", "M", "E", " ", "N", "O", "W">>),
      Word(<<"F", "I", "N", "D", "M", "E">>), Word(<<"N", "O", "W">>),
      Line(<<"m", "e">>), Word(<<"m", "e">>)>>

\* C10: when an invocation that read no tags returns after five successful
\* calls, the table holds for the identity s3://<bucket>/<key> exactly the
\* item with the flattened LINE text and the word flag of the detection
\* result, the object's tag set is the single tag
\* rekognition_text_detection = "true", and the message is deleted.
C10_FaultFreeRun ==
    \A m \in Msgs :
        (pc[m] = "returned" /\ existingTags[m] = <<>> /\ Len(trace[m]) = 5) =>
            LET id == "s3://" \o body[m].bucket \o "/" \o body[m].key
                stored == {i \in table : i.s3Uri = id}
            IN  /\ stored = {[s3Uri |-> id,
                              text_detected_flattened |->
                                  detectedText(rekognitionResponse[m]),
                              contains_word |-> wordDetected(rekognitionResponse[m])]}
                /\ rekognitionResponse[m] = FindMeNow =>
                      \A i \in stored :
                          /\ i.text_detected_flattened =
                                <<"F", "I", "N", "D", "M", "E", " ", "N", "O", "W",
                                  " ", "|", " ", "m", "e">>
                          /\ i.contains_word = TRUE
                /\ rekognitionResponse[m] = <<>> =>
                      \A i \in stored :
                          /\ i.text_detected_flattened = <<>>
                          /\ i.contains_word = FALSE
                /\ tags[body[m].key] = <<MarkerTag("true")>>
                /\ msgState[m] = "deleted"

C10_Witness ==
    \E m \in Msgs :
        /\ pc[m] = "returned"
        /\ existingTags[m] = <<>>
        /\ Len(trace[m]) = 5
        /\ rekognitionResponse[m] = FindMeNow
        /\ "s3://b/posters/p1.jpg" \in {i.s3Uri : i \in table}

(***************************************************************************)
(* The detector fails whenever it is called: Rekognition cannot read the   *)
(* object.  Every other call succeeds.                                     *)
(***************************************************************************)
NextNotFound ==
    \E m \in Msgs :
        \/ Invoke(m)
        \/ GetObjectTagging(m)
        \/ DetectTextFails(m)
        \/ CompleteReturned(m)
        \/ CompleteThrown(m)
        \/ MoveToDeadLetterQueue(m)

SpecNotFound == Init /\ [][NextNotFound]_vars

\* the latest invocation for m ended at a failed DetectText call
DetectorFailed(m) == trace[m] = <<Ok("GetObjectTagging"), Failed("DetectText")>>

\* C11 as amended: when DetectText fails in every invocation, no item is
\* written and no tag set changes; an invocation that reaches DetectText ends
\* there and its message is never deleted; a message is delivered at most
\* maxReceiveCount (3) times in all, the first delivery and two
\* redeliveries; after the third failed delivery the queue can only move it
\* to the dead-letter queue, where it is not delivered again.
C11_DetectorFaultDeadLetters ==
    /\ table = {OtherItem}
    /\ tags = initTags
    /\ \A m \in Msgs :
          /\ "DetectText" \in CallNames(m) =>
                (DetectorFailed(m) /\ msgState[m] # "deleted")
          /\ receiveCount[m] <= maxReceiveCount
          /\ (msgState[m] = "visible" /\ receiveCount[m] = maxReceiveCount) =>
                (~ENABLED Invoke(m) /\ ENABLED MoveToDeadLetterQueue(m))
          /\ msgState[m] = "dlq" =>
                /\ receiveCount[m] = maxReceiveCount
                /\ pc[m] = "idle"
                /\ ~ENABLED Invoke(m)
                /\ ~ENABLED MoveToDeadLetterQueue(m)

C11_Witness ==
    \E m \in Msgs :
        /\ msgState[m] = "dlq"
        /\ DetectorFailed(m)
        /\ receiveCount[m] = maxReceiveCount

\* C11 as stated: a message whose every delivery failed at the detector is in
\* the dead-letter queue after maxReceiveCount redeliveries, that is, after
\* the first delivery and maxReceiveCount more.
C11_AsStated ==
    \A m \in Msgs :
        (msgState[m] = "dlq" /\ DetectorFailed(m)) =>
            receiveCount[m] - 1 = maxReceiveCount

(***************************************************************************)
(* Redelivery after a fault between PutItem and PutObjectTagging: the only *)
(* call that fails is PutObjectTagging, invocations for one object do not  *)
(* overlap, and Rekognition returns for an object what it returned before. *)
(***************************************************************************)
DetectTextSame(m) ==
    /\ DetectText(m)
    /\ lastPut[Uri(m)] # NoItem =>
          Item(Uri(m), rekognitionResponse'[m]) = lastPut[Uri(m)]

NextRedo ==
    \E m \in Msgs :
        \/ InvokeAlone(m)
        \/ GetObjectTagging(m)
        \/ DetectTextSame(m)
        \/ PutItemCommand(m)
        \/ PutObjectTagging(m)
        \/ PutObjectTaggingFails(m)
        \/ SkipTagging(m)
        \/ DeleteMessage(m)
        \/ CompleteReturned(m)
        \/ CompleteThrown(m)
        \/ MoveToDeadLetterQueue(m)

SpecRedo == Init /\ [][NextRedo]_vars

\* m is the only message delivered so far
OnlyDelivered(m) == \A n \in Msgs : n # m => receiveCount[n] = 0

\* the tag set one fault-free invocation leaves on an object that had tagSet
FaultFreeTags(tagSet) ==
    IF Marked(tagSet, "false")
    THEN [i \in 1..Len(tagSet) |->
             IF tagSet[i] = MarkerTag("false") THEN MarkerTag("true") ELSE tagSet[i]]
    ELSE IF Len(tagSet) < 10 THEN Append(tagSet, MarkerTag("true")) ELSE tagSet

\* what one fault-free invocation for m leaves behind: the item of the
\* detection result, the marker on the object, the message deleted
FaultFreeOutcome(m) ==
    /\ table = {OtherItem,
                [s3Uri |-> "s3://b/" \o Key(m),
                 text_detected_flattened |-> detectedText(rekognitionResponse[m]),
                 contains_word |-> wordDetected(rekognitionResponse[m])]}
    /\ tags[Key(m)] = FaultFreeTags(initTags[Key(m)])
    /\ msgState[m] = "deleted"

\* C12: when the first invocation for a message stored the item and failed
\* at PutObjectTagging, the second invocation calls DetectText once and
\* PutItem once, its PutItem leaves the table exactly as the first left it,
\* and when it returns the item, the object's tags and the message are as
\* after one invocation without a fault (the first invocation returning is
\* held to the same outcome).
C12_RedoSafe ==
    [][\A m \in Msgs :
          OnlyDelivered(m) =>
              /\ (receiveCount[m] = 2 /\ pc[m] = "putItem" /\ pc'[m] # "putItem") =>
                    /\ lastPut[Uri(m)] \in table
                    /\ table' = table
                    /\ lastPut' = lastPut
              /\ (pc[m] # "returned" /\ pc'[m] = "returned" /\ Len(trace'[m]) > 1) =>
                    /\ Cardinality({i \in 1..Len(trace'[m]) :
                                       trace'[m][i].call = "DetectText"}) = 1
                    /\ Cardinality({i \in 1..Len(trace'[m]) :
                                       trace'[m][i].call = "PutItem"}) = 1
                    /\ FaultFreeOutcome(m)']_vars

C12_Witness ==
    \E m \in Msgs :
        /\ OnlyDelivered(m)
        /\ receiveCount[m] = 2
        /\ pc[m] = "returned"
        /\ rekognitionResponse[m] = FindMeNow
        /\ Ok("PutObjectTagging") \in Calls(m)
        /\ Marked(initTags[Key(m)], "false")

(***************************************************************************)
(* The text aggregation on every detection result of up to MaxFragments    *)
(* fragments: the handler reads an untagged object, Rekognition returns    *)
(* any such result, and the handler stores the item it computes from it.   *)
(***************************************************************************)
MaxFragments == 3

FragmentTexts ==
    {<<"F", "i", "n", "d", "M", "e">>,
     <<"o", "f", "I", "N", "D", "m", "e", "d">>,
     <<"f", "i", "n", "d">>,
     <<"M", "E">>}

Fragments == {Line(t) : t \in FragmentTexts} \cup {Word(t) : t \in FragmentTexts}

DetectionResults == UNION {[1..n -> Fragments] : n \in 0..MaxFragments}

\* index.js:58-70  Rekognition returns any of the detection results
DetectTextAny(m) ==
    /\ pc[m] = "detect"
    /\ \E r \in DetectionResults :
          rekognitionResponse' = [rekognitionResponse EXCEPT ![m] = r]
    /\ Returned(m, "DetectText", nextStep("detect"))
    /\ UNCHANGED <<task, batchResponse,
                   body, msgState, receiveCount, existingTags, tags, table,
                   initTags, lastPut, runs>>

InitAggregate ==
    /\ Init
    /\ \A o \in Objects : tags[o] = <<>>
    /\ \A m \in Msgs : body[m].parses /\ body[m].key \in Objects

NextAggregate ==
    \E m \in Msgs :
        \/ InvokeAlone(m)
        \/ GetObjectTagging(m)
        \/ DetectTextAny(m)
        \/ PutItemCommand(m)

SpecAggregate == InitAggregate /\ [][NextAggregate]_vars

\* the handler has stored the item of the detection result it holds
Aggregated(m) == pc[m] = "tagging"

\* the item stored for m's object
StoredItem(m) == CHOOSE i \in table : i.s3Uri = "s3://b/" \o Key(m)

\* the positions of the fragments of the given type, and the k-th of them
PositionsOf(r, type) == {i \in 1..Len(r) : r[i].Type = type}
NthOf(r, type, k) ==
    CHOOSE i \in PositionsOf(r, type) :
        Cardinality({j \in PositionsOf(r, type) : j < i}) = k - 1

\* where the k-th LINE text starts in the flattened text: after the texts
\* before it, each followed by the three characters of the separator
RECURSIVE LineOffset(_, _)
LineOffset(r, k) ==
    IF k = 1 THEN 0
    ELSE LineOffset(r, k - 1) + Len(r[NthOf(r, "LINE", k - 1)].DetectedText) + 3

\* C13: the flattened text stored consists of the texts of the LINE
\* fragments, each at its place in the order of the detection result, every
\* two neighbours separated by exactly " | ", with nothing before the first,
\* after the last or in between; WORD fragments add nothing, and without a
\* LINE fragment the text is empty.
C13_FlattenedText ==
    \A m \in Msgs :
        Aggregated(m) =>
            LET r == rekognitionResponse[m]
                n == Cardinality(PositionsOf(r, "LINE"))
                flat == StoredItem(m).text_detected_flattened
                text(k) == r[NthOf(r, "LINE", k)].DetectedText
            IN  /\ n = 0 => flat = <<>>
                /\ n > 0 => Len(flat) = LineOffset(r, n) + Len(text(n))
                /\ \A k \in 1..n :
                      SubSeq(flat, LineOffset(r, k) + 1,
                             LineOffset(r, k) + Len(text(k))) = text(k)
                /\ \A k \in 1..(n - 1) :
                      SubSeq(flat, LineOffset(r, k) + Len(text(k)) + 1,
                             LineOffset(r, k + 1)) = <<" ", "|", " ">>

C13_Witness ==
    \E m \in Msgs :
        /\ Aggregated(m)
        /\ rekognitionResponse[m] =
              <<Line(<<"M", "E">>), Word(<<"f", "i", "n", "d">>),
                Line(<<"F", "i", "n", "d", "M", "e">>)>>
        /\ StoredItem(m).text_detected_flattened =
              <<"M", "E", " ", "|", " ", "F", "i", "n", "d", "M", "e">>

\* the lower-case form of one character
LowerOf(c) ==
    CASE c = "D" -> "d" [] c = "E" -> "e" [] c = "F" -> "f" [] c = "I" -> "i"
      [] c = "M" -> "m" [] c = "N" -> "n" [] c = "O" -> "o" [] c = "W" -> "w"
      [] c = "G" -> "g" [] c = "J" -> "j" [] c = "P" -> "p"
      [] OTHER -> c

\* text t contains word w at some position when case is ignored
ContainsIgnoringCase(t, w) ==
    \E k \in 0..(Len(t) - Len(w)) :
        \A j \in 1..Len(w) : LowerOf(t[k + j]) = LowerOf(w[j])

\* target words, among them the one the stack configures
TargetWords ==
    {wordToDetect, <<"F", "i", "n", "d", "M", "e">>, <<"M", "E">>, <<"e", "d">>,
     <<"N", "O", "W">>}

\* C14: the flag stored is true exactly when some WORD fragment's text
\* contains the configured word, case ignored; the same holds of the
\* handler's test for every target word; LINE fragments do not count, and
\* without a WORD fragment the flag is false.
C14_ContainsWord ==
    \A m \in Msgs :
        Aggregated(m) =>
            LET r == rekognitionResponse[m]
                match(w) == \E i \in PositionsOf(r, "WORD") :
                                ContainsIgnoringCase(r[i].DetectedText, w)
            IN  /\ StoredItem(m).contains_word = match(wordToDetect)
                /\ \A w \in TargetWords : wordDetectedIn(r, w) = match(w)
                /\ PositionsOf(r, "WORD") = {} => StoredItem(m).contains_word = FALSE

C14_Witness ==
    \E m \in Msgs :
        /\ Aggregated(m)
        /\ rekognitionResponse[m] =
              <<Line(<<"F", "i", "n", "d", "M", "e">>),
                Word(<<"o", "f", "I", "N", "D", "m", "e", "d">>)>>
        /\ StoredItem(m).contains_word = TRUE
        /\ wordDetectedIn(rekognitionResponse[m], <<"F", "i", "n", "d", "M", "e">>)

(***************************************************************************)
(* The s3-batch-sqs handler: S3 Batch Operations invokes it with one task  *)
(* for each object of the inventory, and invokes it again for a task it    *)
(* reported as TemporaryFailure.  Task m names the object of message m.    *)
(***************************************************************************)
SUPPORTED_EXTENSIONS ==
    {<<".", "j", "p", "g">>, <<".", "j", "p", "e", "g">>, <<".", "p", "n", "g">>}

\* String.prototype.lastIndexOf: the last position of c in s, counted from
\* 0, or -1
lastIndexOf(s, c) ==
    IF \E i \in 1..Len(s) : s[i] = c
    THEN (CHOOSE i \in 1..Len(s) : s[i] = c /\ \A j \in (i + 1)..Len(s) : s[j] # c) - 1
    ELSE -1

\* String.prototype.substring with one argument; a negative start counts as 0
substring(s, start) == SubSeq(s, (IF start < 0 THEN 0 ELSE start) + 1, Len(s))

\* String.prototype.split: the parts of s between the occurrences of sep
RECURSIVE split(_, _)
split(s, sep) ==
    LET at == {k \in 0..(Len(s) - Len(sep)) : SubSeq(s, k + 1, k + Len(sep)) = sep}
    IN  IF at = {} THEN <<s>>
        ELSE LET k == CHOOSE x \in at : \A y \in at : x <= y
             IN  <<SubSeq(s, 1, k)>> \o split(SubSeq(s, k + Len(sep) + 1, Len(s)), sep)

\* an extension taken without lower-casing the key
fileExtensionAsWritten(s3Key) == substring(s3Key, lastIndexOf(s3Key, "."))

\* index.js:26
fileExtension(s3Key) == substring(toLowerCase(s3Key), lastIndexOf(s3Key, "."))

BatchResult(taskId, resultCode, resultString) ==
    [taskId |-> taskId, resultCode |-> resultCode, resultString |-> resultString]

NoBody == [parses |-> FALSE, bucket |-> <<>>, key |-> <<>>, versionId |-> "none"]

\* a catch block that reports the task as done
batchHandlerCatchSucceeds(t, sendOk) ==
    IF fileExtension(t.s3Key) \notin SUPPORTED_EXTENSIONS
    THEN [calls |-> <<>>, sent |-> FALSE, messageBody |-> NoBody,
          results |-> <<BatchResult(t.taskId, "Succeeded", "Skipped")>>]
    ELSE [calls |-> <<Call("SendMessage", sendOk)>>, sent |-> sendOk,
          messageBody |-> [parses |-> TRUE,
                           bucket |-> split(t.s3BucketArn, <<":", ":", ":">>)[2],
                           key |-> t.s3Key, versionId |-> t.s3VersionId],
          results |-> <<BatchResult(t.taskId, "Succeeded",
                                    IF sendOk THEN "Sent" ELSE "Error")>>]

\* index.js:15-71  what one invocation for task t does when SendMessage
\* resolves (sendOk) or rejects: the calls it makes, the message it sends
\* and the results it returns
batchHandler(t, sendOk) ==
    LET s3Key == t.s3Key
        s3VersionId == t.s3VersionId
        s3Bucket == split(t.s3BucketArn, <<":", ":", ":">>)[2]
    IN  IF fileExtension(s3Key) \notin SUPPORTED_EXTENSIONS
        THEN [calls |-> <<>>, sent |-> FALSE, messageBody |-> NoBody,
              results |-> <<BatchResult(t.taskId, "Succeeded", "Skipped")>>]
        ELSE IF sendOk
        THEN [calls |-> <<Call("SendMessage", TRUE)>>, sent |-> TRUE,
              messageBody |-> [parses |-> TRUE, bucket |-> s3Bucket, key |-> s3Key,
                               versionId |-> s3VersionId],
              results |-> <<BatchResult(t.taskId, "Succeeded", "Sent")>>]
        ELSE [calls |-> <<Call("SendMessage", FALSE)>>, sent |-> FALSE,
              messageBody |-> NoBody,
              results |-> <<BatchResult(t.taskId, "TemporaryFailure", "Error")>>]

TaskKeys ==
    {<<"a", ".", "j", "p", "g">>,
     <<"a", ".", "J", "P", "G">>,
     <<"d", ".", "e", "/", "a", ".", "J", "p", "e", "g">>,
     <<"a", ".", "p", "n", "g">>,
     <<".", "P", "N", "G">>,
     <<"a", ".", "p", "n", "g", ".", "m", "d">>,
     <<"a", ".", "j", "p", "e">>,
     <<"a", "j", "p", "g">>,
     <<"p", "n", "g">>,
     <<"a", ".">>}

BucketArn == <<"a", "r", "n", ":", "a", "w", "s", ":", "s", "3", ":", ":", ":", "b">>

TaskId(m) == <<"t1", "t2", "t3", "t4">>[m]

Tasks(m) ==
    {[taskId |-> TaskId(m), s3Key |-> k, s3VersionId |-> v, s3BucketArn |-> BucketArn] :
        k \in TaskKeys, v \in {"v1", "null"}}

InitFanOut ==
    /\ task \in [Msgs -> UNION {Tasks(m) : m \in Msgs}]
    /\ \A m \in Msgs : task[m] \in Tasks(m)
    /\ batchResponse = [m \in Msgs |-> NoBatchResponse]
    /\ body = [m \in Msgs |-> NoBody]
    /\ msgState = [m \in Msgs |-> "unsent"]
    /\ receiveCount = [m \in Msgs |-> 0]
    /\ pc = [m \in Msgs |-> "idle"]
    /\ existingTags = [m \in Msgs |-> <<>>]
    /\ rekognitionResponse = [m \in Msgs |-> NoResponse]
    /\ tags = [o \in Objects |-> <<>>]
    /\ table = {OtherItem}
    /\ trace = [m \in Msgs |-> <<>>]
    /\ initTags = tags
    /\ lastPut = [u \in Uris |-> NoItem]
    /\ runs = 0

\* S3 Batch Operations invokes the handler for task m: the first time, or
\* again after a TemporaryFailure
InvokeBatch(m, sendOk) ==
    /\ runs < MaxRuns
    /\ IF batchResponse[m] = NoBatchResponse THEN TRUE
       ELSE batchResponse[m].results[1].resultCode = "TemporaryFailure"
    /\ runs' = runs + 1
    /\ trace' = [trace EXCEPT ![m] = batchHandler(task[m], sendOk).calls]
    /\ batchResponse' =
          [batchResponse EXCEPT
              ![m] = [invocationSchemaVersion |-> "1.0",
                      treatMissingKeysAs |-> "TemporaryFailure",
                      results |-> batchHandler(task[m], sendOk).results]]
    /\ IF batchHandler(task[m], sendOk).sent
       THEN /\ body' = [body EXCEPT ![m] = batchHandler(task[m], sendOk).messageBody]
            /\ msgState' = [msgState EXCEPT ![m] = "visible"]
       ELSE UNCHANGED <<body, msgState>>
    /\ UNCHANGED <<task, receiveCount, pc, existingTags, rekognitionResponse, tags,
                   table, initTags, lastPut>>

\* index.js:27-32  the key has no supported extension
BatchSkips(m) ==
    /\ fileExtension(task[m].s3Key) \notin SUPPORTED_EXTENSIONS
    /\ InvokeBatch(m, TRUE)

\* index.js:33-52  SendMessageCommand resolves
BatchSends(m) ==
    /\ fileExtension(task[m].s3Key) \in SUPPORTED_EXTENSIONS
    /\ InvokeBatch(m, TRUE)

\* index.js:54-60  SendMessageCommand rejects
BatchSendFails(m) ==
    /\ fileExtension(task[m].s3Key) \in SUPPORTED_EXTENSIONS
    /\ InvokeBatch(m, FALSE)

NextFanOut ==
    \E m \in Msgs :
        \/ BatchSkips(m)
        \/ BatchSends(m)
        \/ BatchSendFails(m)

SpecFanOut == InitFanOut /\ [][NextFanOut]_vars

\* key k ends in the extension e when case is ignored
EndsIn(k, e) ==
    /\ Len(k) >= Len(e)
    /\ \A j \in 1..Len(e) : LowerOf(k[Len(k) - Len(e) + j]) = e[j]

\* key k ends in .jpg, .jpeg or .png when case is ignored
SupportedKey(k) ==
    \/ EndsIn(k, <<".", "j", "p", "g">>)
    \/ EndsIn(k, <<".", "j", "p", "e", "g">>)
    \/ EndsIn(k, <<".", "p", "n", "g">>)

\* the handler has been invoked for task m
BatchInvoked(m) == batchResponse[m] # NoBatchResponse

\* the message of task m is in the queue
Published(m) == msgState[m] = "visible"

C16_FanOutResult ==
    \A m \in Msgs :
        BatchInvoked(m) =>
            LET results == batchResponse[m].results
            IN  /\ Len(results) = 1
                /\ results[1].taskId = task[m].taskId
                /\ results[1].resultCode \in {"Succeeded", "TemporaryFailure"}
                /\ results[1].resultCode = "TemporaryFailure" <=>
                      \E i \in 1..Len(trace[m]) : ~trace[m][i].ok
                /\ results[1].resultCode = "Succeeded" =>
                      (Published(m) \/ ~SupportedKey(task[m].s3Key))
                /\ (SupportedKey(task[m].s3Key) /\ ~Published(m)) =>
                      results[1].resultCode = "TemporaryFailure"

C16_Witness ==
    \E m, n \in Msgs :
        /\ BatchInvoked(m)
        /\ batchResponse[m].results[1].resultCode = "TemporaryFailure"
        /\ ~Published(m)
        /\ BatchInvoked(n)
        /\ batchResponse[n].results = <<BatchResult(TaskId(n), "Succeeded", "Skipped")>>

\* the positions of the idempotency marker in a tag set
MarkerPositions(tagSet) ==
    {i \in 1..Len(tagSet) : tagSet[i].Key = "rekognition_text_detection"}

\* a MarkerSet as the data model describes it: at most 10 entries, at most
\* one of them the marker, and the marker's value "false" or "true"
WellFormed(tagSet) ==
    /\ Len(tagSet) <= 10
    /\ Cardinality(MarkerPositions(tagSet)) <= 1
    /\ \A i \in MarkerPositions(tagSet) : tagSet[i].Value \in {"false", "true"}

\* C17: an object whose tag set was well formed before the pipeline ran has
\* a well-formed tag set in every state, whatever invocations ran, failed or
\* overlapped.
C17_MarkerSetWellFormed ==
    \A o \in Objects : WellFormed(initTags[o]) => WellFormed(tags[o])

C17_Witness ==
    \E o \in Objects :
        /\ WellFormed(initTags[o])
        /\ Len(initTags[o]) = 9
        /\ Len(tags[o]) = 10
        /\ \E m, n \in Msgs : m # n /\ Ok("PutObjectTagging") \in (Calls(m) \cap Calls(n))

\* a body that JSON.parse rejects, or that lacks the bucket or the key
Malformed(b) == ~b.parses \/ b.bucket = Undefined \/ b.key = Undefined

\* the calls of the handler to S3, Rekognition, DynamoDB and SQS
ServiceCalls ==
    {"GetObjectTagging", "DetectText", "PutItem", "PutObjectTagging", "DeleteMessage"}

\* C18 as stated: the invocation for a message with a malformed body calls
\* neither S3 nor Rekognition nor DynamoDB nor SQS.
C18_AsStated ==
    \A m \in Msgs :
        Malformed(body[m]) => CallNames(m) \cap ServiceCalls = {}

\* the pipeline has set the marker of object o to "true"
MarkedByPipeline(o) == Marked(tags[o], "true") /\ ~Marked(initTags[o], "true")

\* the table holds an item for object o
Recorded(o) == \E i \in table : i.s3Uri = "s3://b/" \o o

\* C20: in every state, with failures and overlapping invocations, an
\* object whose marker the pipeline has set to "true" has an item in the
\* table, and so has the object of every invocation whose PutObjectTagging
\* call succeeded.
C20_MarkerImpliesRecord ==
    /\ \A o \in Objects : MarkedByPipeline(o) => Recorded(o)
    /\ \A m \in Msgs : Ok("PutObjectTagging") \in Calls(m) => Recorded(Key(m))

C20_Witness ==
    \E o \in Objects :
        /\ MarkedByPipeline(o)
        /\ Recorded(o)
        /\ \E m \in Msgs : Key(m) = o /\ Failed("PutItem") \in Calls(m)

\* the tag set carries the marker, and with no other value than "true"
MarkerTrue(tagSet) ==
    /\ MarkerPositions(tagSet) # {}
    /\ \A i \in MarkerPositions(tagSet) : tagSet[i].Value = "true"

\* the invocation for m has S3 store a tag set
StoresTags(m) ==
    /\ TaggingStep(m)
    /\ pc'[m] = nextStep("tagging")
    /\ tagUpdate(existingTags[m]).write

\* C21: no step takes the marker "true" off an object or gives it another
\* value, whether the invocation that writes read the tags before or after
\* the marker became "true"; this is so because every tag set an invocation
\* has S3 store is the one it sent and carries the marker with value "true".
C21_MarkerMonotonic ==
    [][/\ \A o \in Objects : MarkerTrue(tags[o]) => MarkerTrue(tags'[o])
       /\ \A m \in Msgs :
             StoresTags(m) =>
                 /\ tags'[Key(m)] = tagUpdate(existingTags[m]).TagSet
                 /\ MarkerTrue(tags'[Key(m)])]_vars

C21_Witness ==
    \E m, n \in Msgs :
        /\ m # n
        /\ Key(m) = Key(n)
        /\ pc[m] = "idle"
        /\ pc[n] = "returned"
        /\ Ok("PutObjectTagging") \in Calls(m)
        /\ Ok("PutObjectTagging") \in Calls(n)
        /\ Unmarked(existingTags[n])
        /\ MarkerTrue(tags[Key(n)])

====
